---------------------------- MODULE Spec2Model ----------------------------
(***************************************************************************)
(* A model of the ERA5-Land NetCDF -> MongoDB loader                       *)
(* (WeatherServiceAnalysis/store-weather-data.py) and of the downloader    *)
(* (WeatherServiceAnalysis/mongodb-seed.py).                               *)
(*                                                                         *)
(* Seven specifications are defined over one set of variables:             *)
(*   SpecSig   the magic-bytes check _is_probably_netcdf on file headers;  *)
(*   SpecLoad  the data path of one chunk: transform, flatten,             *)
(*             prepare_bulk_operations, load_data_to_mongo, the batch      *)
(*             being written more than once;                               *)
(*   SpecBuild prepare_bulk_operations on tables with malformed rows;      *)
(*   Spec      process_netcdf_file called on a sequence of files against   *)
(*             one collection;                                             *)
(*   SpecChunks the chunk loop of one call of process_netcdf_file, on     *)
(*             tables that may hold a record the batch builder skips;      *)
(*   SpecMain  one run of main: connection, setup, file loop, exit;        *)
(*   SpecSeed  the download loop of mongodb-seed.py over the 12 months.    *)
(*                                                                         *)
(* Numbers.  A float is a record [kind, val, negzero]: kind "num" with an  *)
(* integer val (negzero tells -0.0 from 0.0), "nan" or "inf"; "none" and   *)
(* "str" are values that are no number.                                    *)
(* Temperatures are in hundredths of a degree, wind                        *)
(* components and speeds in m/s, angles in hundredths of a degree.  Time   *)
(* coordinates are whole hours, the step index of the file.                *)
(***************************************************************************)
EXTENDS Integers, Sequences, FiniteSets, Bags, TLC

VARIABLES
    sigFile,      \* SpecSig: the file handed to _is_probably_netcdf
    sigResult     \* SpecSig: "pending", or the verdict "accept" / "reject"

VARIABLES
    cells,        \* SpecLoad: the chunk's grid cells (raw variables)
    table,        \* SpecLoad, SpecBuild: the chunk's table (the DataFrame)
    operations,   \* SpecLoad: the batch built from them
    results,      \* SpecLoad: the outcome of each write of the batch, in order
    phase         \* SpecLoad: "raw" -> "built"

VARIABLES
    store,        \* the collection: a bag of documents
    uniqueIndex   \* whether setup_indexes created the unique index on it

VARIABLES
    pc,           \* Spec: where process_netcdf_file stands
    file,         \* Spec: the file process_netcdf_file was called on
    checks,       \* Spec: the validation checks evaluated, in order
    time_dim,     \* Spec: the time dimension's name in the opened dataset
    engineIdx,    \* Spec: the engine the open loop stands at
    handles,      \* Spec: per dataset handle opened, the close() calls it got
    open_errors,  \* Spec: the engines whose attempt raised, in order
    ds,           \* Spec: 0 (None) or the index in handles of the chunked handle
    total_steps,  \* Spec: len(ds[time_dim])
    i,            \* Spec: the loop variable of the chunk loop
    chunkLog,     \* Spec: per chunk visited, its step range, its outcome, the
                  \*       rows of its table, the bulk_write calls made, the
                  \*       operations written and the matched count logged
    escaped,      \* Spec: an exception left process_netcdf_file
    processed_records_in_file,
                  \* Spec: the running record count of the file
    logged_records
                  \* Spec: -1, or the count "Finished processing file" logged

VARIABLES
    mpc,          \* SpecMain: where main stands
    clients,      \* SpecMain: per MongoClient created, the close() calls it got
    client,       \* SpecMain: main's `client`: 0 (None) or an index in clients
    file_list,    \* SpecMain: sorted(glob.glob(...)), paths as numbers
    index,        \* SpecMain: files the loop has gone through
    attempted,    \* SpecMain: the calls of process_netcdf_file, in order
    finished,     \* SpecMain: "finished processing all found files" was logged
    failure,      \* SpecMain: the setup failure met, or "none"
    pending,      \* SpecMain: the exception in flight when finally runs
    exit_status   \* SpecMain: -1 while running, then the process's status

VARIABLES
    seed_pc,      \* SpecSeed: where the download script stands
    month,        \* SpecSeed: the month of the `for` loop, 0 before the first
    months_attempted,
                  \* SpecSeed: the months the loop has entered, in order
    attempts,     \* SpecSeed: the script's `attempts`
    before,       \* SpecSeed: the file at output_filename when the month began
    output_file,  \* SpecSeed: the file at output_filename
    invalid_file, \* SpecSeed: the file at output_filename + '.invalid'
    attempt_log   \* SpecSeed: per attempt of the month, its outcome, the
                  \*           seconds slept after it, whether it renamed

-----------------------------------------------------------------------------
(* Bounds of the model *)

\* rows of a chunk table in SpecLoad
MaxRows == 3
\* times the same batch is handed to load_data_to_mongo in SpecLoad
MaxWrites == 2
\* distinct longitudes of the grid in SpecLoad
NumLons == 3
\* bytes of a file in SpecSig
MaxContentLen == 9
\* a file of Spec has up to MaxChunks whole chunks of steps, or one step more
MaxChunks == 1
\* land cells sampled from a chunk in Spec
MaxChunkRows == 2
\* paths the pattern can match in SpecMain
MaxPaths == 3

-----------------------------------------------------------------------------
(* Floats *)

\* A value of a table is a record [kind, val, negzero]: a finite float
\* ("num", negzero telling -0.0 from 0.0), NaN, an infinity, or something
\* that is no number (None, a string)
NaN == [kind |-> "nan", val |-> 0, negzero |-> FALSE]

Num(x) == [kind |-> "num", val |-> x, negzero |-> FALSE]

\* -0.0
NegZero == [kind |-> "num", val |-> 0, negzero |-> TRUE]

\* float('inf'): val stands beyond every finite sample
PosInf == [kind |-> "inf", val |-> 2 ^ 20, negzero |-> FALSE]

\* None
NoneValue == [kind |-> "none", val |-> 0, negzero |-> FALSE]

\* A string
StrValue == [kind |-> "str", val |-> 0, negzero |-> FALSE]

\* isinstance(val, (int, float, np.number))
IsNumber(x) == x.kind \in {"num", "nan", "inf"}

\* np.isnan, on a number
isnan(x) == x.kind = "nan"

\* The sign bit of a finite float
SignBit(x) == x.val < 0 \/ x.negzero

Abs(x) == IF x < 0 THEN -x ELSE x

Sign(x) == IF x < 0 THEN -1 ELSE IF x > 0 THEN 1 ELSE 0

Min(a, b) == IF a <= b THEN a ELSE b

\* np.sqrt to the whole unit below: exact on the squares
Sqrt(x) == CHOOSE r \in 0..x : r * r <= x /\ x < (r + 1) * (r + 1)

\* Python's round(): d / q rounded to the nearest integer, ties to even
RoundHalfEven(d, q) ==
    LET lo == d \div q
        rem == d % q
    IN  IF 2 * rem < q THEN lo
        ELSE IF 2 * rem > q THEN lo + 1
        ELSE IF lo % 2 = 0 THEN lo ELSE lo + 1

-----------------------------------------------------------------------------
(* The header check *)

\* b'CDF'
CDF_MAGIC == <<67, 68, 70>>

\* b"\x89HDF\r\n\x1a\n"
HDF5_SIGNATURE == <<137, 72, 68, 70, 13, 10, 26, 10>>

\* f.read(8): at most the first eight bytes
Read8(content) == SubSeq(content, 1, Min(8, Len(content)))

\* bytes.startswith
StartsWith(s, prefix) ==
    /\ Len(s) >= Len(prefix)
    /\ SubSeq(s, 1, Len(prefix)) = prefix

\* A file f is [readable, content]; open() or read() of an unreadable one raises,
\* which the function catches and answers False.
_is_probably_netcdf(f) ==
    IF ~f.readable THEN FALSE
    ELSE LET head == Read8(f.content)
         IN  IF StartsWith(head, CDF_MAGIC) THEN TRUE
             ELSE IF head = HDF5_SIGNATURE THEN TRUE
             ELSE FALSE

-----------------------------------------------------------------------------
(* The transform: one grid cell of a loaded chunk *)

\* 273.15 K, in hundredths
KELVIN_OFFSET == 27315

\* temp_k - 273.15
temp_c(t2m) == IF isnan(t2m) THEN NaN ELSE Num(t2m.val - KELVIN_OFFSET)

\* The speed with an undefined component counted as zero
wind_speed_mps_NanAsZero(u10, v10) ==
    IF isnan(u10) /\ isnan(v10) THEN NaN
    ELSE LET u == IF isnan(u10) THEN 0 ELSE u10.val
             v == IF isnan(v10) THEN 0 ELSE v10.val
         IN  Num(Sqrt(u * u + v * v))

\* np.sqrt(u10**2 + v10**2)
wind_speed_mps(u10, v10) ==
    IF isnan(u10) \/ isnan(v10) THEN NaN
    ELSE Num(Sqrt(u10.val * u10.val + v10.val * v10.val))

\* atan(a / b) in hundredths of a degree for a, b >= 0, on the directions
\* the wind samples take: the axes (a zero over a zero counts as the axis
\* b), the diagonals, the 3-4-5 triangle, one part in 120 off an axis
AtanFirstQuadrant(a, b) ==
    CASE a = 0 -> 0
      [] b = 0 -> 9000
      [] a = b -> 4500
      [] 4 * a = 3 * b -> 3687
      [] 3 * a = 4 * b -> 5313
      [] 120 * a = b -> 48
      [] a = 120 * b -> 8952

\* np.degrees(np.arctan2(u, v)) of two finite floats, in hundredths of a
\* degree: the quadrant is told by the sign bits, those of zeros included
degrees_arctan2(u, v) ==
    LET a == AtanFirstQuadrant(Abs(u.val), Abs(v.val))
    IN  IF ~SignBit(v) THEN (IF SignBit(u) THEN -a ELSE a)
        ELSE IF ~SignBit(u) THEN 18000 - a
        ELSE a - 18000

\* The direction the wind blows to: the formula without the half turn
wind_direction_deg_To(u10, v10) ==
    IF isnan(u10) \/ isnan(v10) THEN NaN
    ELSE Num(degrees_arctan2(u10, v10) % 36000)

\* (np.degrees(np.arctan2(u10, v10)) + 180) % 360
wind_direction_deg(u10, v10) ==
    IF isnan(u10) \/ isnan(v10) THEN NaN
    ELSE Num((degrees_arctan2(u10, v10) + 18000) % 36000)

\* The names a row of the chunk's table can give its time column
TimeDims == {"valid_time", "time"}

\* A grid cell is a function over its time column, "latitude", "longitude",
\* "t2m", "u10", "v10".  The time column of a cell or row:
TimeColOf(r) == IF "valid_time" \in DOMAIN r THEN "valid_time" ELSE "time"

\* chunk_ds[['temperature_c', 'wind_speed_mps', 'wind_direction_deg']]
\*     .to_dataframe() ... .reset_index(), one row
Transform(cell) ==
    (TimeColOf(cell) :> cell[TimeColOf(cell)]) @@
    [latitude           |-> cell.latitude,
     longitude          |-> cell.longitude,
     temperature_c      |-> temp_c(cell.t2m),
     wind_speed_mps     |-> wind_speed_mps(cell.u10, cell.v10),
     wind_direction_deg |-> wind_direction_deg(cell.u10, cell.v10)]

\* how='all' over the three derived columns
AllWeatherNaN(row) ==
    /\ isnan(row.temperature_c)
    /\ isnan(row.wind_speed_mps)
    /\ isnan(row.wind_direction_deg)

\* how='any' in place of how='all'
DropNaMask_HowAny(row) ==
    /\ ~isnan(row.temperature_c)
    /\ ~isnan(row.wind_speed_mps)
    /\ ~isnan(row.wind_direction_deg)

\* df.dropna(subset=[...], how='all'): the rows kept
DropNaMask(row) == ~AllWeatherNaN(row)

\* The chunk's table: every cell transformed, the all-NaN rows dropped, the
\* order of the grid kept
Flatten(cs) ==
    SelectSeq([k \in 1..Len(cs) |-> Transform(cs[k])], DropNaMask)

-----------------------------------------------------------------------------
(* The batch builder *)

\* None
Null == [null |-> TRUE, val |-> 0]

Val(x) == [null |-> FALSE, val |-> x]

\* None if np.isnan(x) else float(x)
NoneIfNaN(x) == IF isnan(x) THEN Null ELSE Val(x.val)

\* None if np.isnan(x) else int(round(x)), x in hundredths
NoneIfNaNRounded(x) == IF isnan(x) THEN Null ELSE Val(RoundHalfEven(x.val, 100))

\* isinstance(val, (int, float, np.number)) and not np.isnan(val)
ValidCoordinate(c) == IsNumber(c) /\ ~isnan(c)

\* pd.to_datetime(record[time_col]).to_pydatetime(): whole hours are kept
to_pydatetime(t) == t

RequiredCols(time_col) ==
    {time_col, "latitude", "longitude",
     "temperature_c", "wind_speed_mps", "wind_direction_deg"}

\* A filter on a time one step off the timestamp the $set document writes
op_filter_ShiftedTime(record, time_col) ==
    [timestamp |-> to_pydatetime(record[time_col]) + 1,
     latitude  |-> record.latitude.val,
     longitude |-> record.longitude.val]

\* The filter of an operation
op_filter(record, time_col) ==
    [timestamp |-> to_pydatetime(record[time_col]),
     latitude  |-> record.latitude.val,
     longitude |-> record.longitude.val]

\* The $set document with the keys whose value is None removed
op_update_set_NoneRemoved(record, time_col) ==
    LET full == [timestamp         |-> to_pydatetime(record[time_col]),
                 latitude          |-> record.latitude.val,
                 longitude         |-> record.longitude.val,
                 temperature       |-> NoneIfNaN(record.temperature_c),
                 temperatureUnit   |-> "C",
                 windSpeed         |-> NoneIfNaN(record.wind_speed_mps),
                 windSpeedUnit     |-> "m/s",
                 windDirection     |-> NoneIfNaNRounded(record.wind_direction_deg),
                 windDirectionUnit |-> "degrees"]
        nullable == {"temperature", "windSpeed", "windDirection"}
    IN  [k \in {f \in DOMAIN full : f \notin nullable \/ ~full[f].null} |-> full[k]]

\* The $set document of an operation
op_update_set(record, time_col) ==
    [timestamp         |-> to_pydatetime(record[time_col]),
     latitude          |-> record.latitude.val,
     longitude         |-> record.longitude.val,
     temperature       |-> NoneIfNaN(record.temperature_c),
     temperatureUnit   |-> "C",
     windSpeed         |-> NoneIfNaN(record.wind_speed_mps),
     windSpeedUnit     |-> "m/s",
     windDirection     |-> NoneIfNaNRounded(record.wind_direction_deg),
     windDirectionUnit |-> "degrees"]

\* UpdateOne(op_filter, {"$set": op_update_set}) with upsert left at its default
UpdateOne_NoUpsert(record, time_col) ==
    [filter |-> op_filter(record, time_col),
     set    |-> op_update_set(record, time_col),
     upsert |-> FALSE]

\* UpdateOne(op_filter, {"$set": op_update_set}, upsert=True)
UpdateOne(record, time_col) ==
    [filter |-> op_filter(record, time_col),
     set    |-> op_update_set(record, time_col),
     upsert |-> TRUE]

\* The two "continue" branches of the loop body
SkipsRecord(record) ==
    \/ ~(ValidCoordinate(record.latitude) /\ ValidCoordinate(record.longitude))
    \/ AllWeatherNaN(record)

\* The body raises on the record: np.isnan is applied to each weather value
\* left of a record with valid coordinates, and raises TypeError on one that
\* is no number
RecordRaises(record) ==
    /\ ValidCoordinate(record.latitude) /\ ValidCoordinate(record.longitude)
    /\ \/ ~IsNumber(record.temperature_c)
       \/ ~IsNumber(record.wind_speed_mps)
       \/ ~IsNumber(record.wind_direction_deg)

RECURSIVE BuildOperations(_, _, _)
BuildOperations(records, time_col, acc) ==
    IF records = <<>> THEN acc
    ELSE LET record == Head(records)
         IN  BuildOperations(
                 Tail(records), time_col,
                 \* except Exception: continue
                 IF RecordRaises(record) THEN acc
                 ELSE IF SkipsRecord(record) THEN acc
                 ELSE Append(acc, UpdateOne(record, time_col)))

\* df is the sequence of rows of a non-empty table
prepare_bulk_operations(df) ==
    LET columns == DOMAIN df[1]
        time_col == IF "valid_time" \in columns THEN "valid_time" ELSE "time"
    IN  IF ~(RequiredCols(time_col) \subseteq columns) THEN <<>>
        ELSE BuildOperations(df, time_col, <<>>)

-----------------------------------------------------------------------------
(* The collection and the writer *)

\* A document matches a filter when it carries each of its fields
Matches(doc, filter) ==
    \A k \in DOMAIN filter : k \in DOMAIN doc /\ doc[k] = filter[k]

\* $set: the fields of `set` written over those of `doc`
SetFields(doc, set) ==
    [k \in DOMAIN doc \cup DOMAIN set |->
        IF k \in DOMAIN set THEN set[k] ELSE doc[k]]

\* The key of the index timestamp_lat_lon_unique
IndexKey(doc) == <<doc.timestamp, doc.latitude, doc.longitude>>

\* No two documents of the bag have the same index key
KeysUnique(bag) ==
    /\ \A d \in BagToSet(bag) : CopiesIn(d, bag) = 1
    /\ \A d, e \in BagToSet(bag) : IndexKey(d) = IndexKey(e) => d = e

\* The server's execution of one UpdateOne.  acc is
\* [store, unique, upserted, matched, modified, errors]; with the unique
\* index in place a write that would duplicate a key is refused.
ExecuteUpdateOne(acc, op) ==
    LET found == {d \in BagToSet(acc.store) : Matches(d, op.filter)}
        old == CHOOSE d \in found : TRUE
        updated == (acc.store (-) SetToBag({old}))
                       (+) SetToBag({SetFields(old, op.set)})
        inserted == acc.store (+) SetToBag({SetFields(op.filter, op.set)})
    IN  IF found # {}
        THEN IF acc.unique /\ ~KeysUnique(updated)
             THEN [acc EXCEPT !.errors = @ + 1]
             ELSE [acc EXCEPT
                      !.store = updated,
                      !.matched = @ + 1,
                      !.modified = @ + (IF SetFields(old, op.set) = old THEN 0 ELSE 1)]
        ELSE IF ~op.upsert THEN acc
        ELSE IF acc.unique /\ ~KeysUnique(inserted)
             THEN [acc EXCEPT !.errors = @ + 1]
             ELSE [acc EXCEPT !.store = inserted, !.upserted = @ + 1]

\* The operations from index k on; those in `failing` are refused by the server.
\* An ordered batch stops at the first refusal, an unordered one goes on.
RECURSIVE ExecuteOps(_, _, _, _, _)
ExecuteOps(acc, ops, k, ordered, failing) ==
    IF k > Len(ops) THEN acc
    ELSE IF k \in failing
    THEN IF ordered THEN [acc EXCEPT !.errors = @ + 1]
         ELSE ExecuteOps([acc EXCEPT !.errors = @ + 1], ops, k + 1, ordered, failing)
    ELSE ExecuteOps(ExecuteUpdateOne(acc, ops[k]), ops, k + 1, ordered, failing)

\* What the environment does to one bulk_write call: the call fails as a whole
\* (nothing reaches the server), or the server refuses the operations in
\* `failing`.
WriteFates(ops) ==
    {[total |-> TRUE, failing |-> {}]} \cup
    {[total |-> FALSE, failing |-> F] :
        F \in {{}} \cup {{k} : k \in 1..Len(ops)}}

\* The collection object: its documents and whether its unique index exists
Collection == [store |-> store, unique |-> uniqueIndex]

\* collection.bulk_write(operations, ordered=...): the collection afterwards,
\* the counts of the result, and the exception raised, if any
bulk_write(coll, ops, ordered, fate) ==
    IF fate.total
    THEN [store |-> coll.store, upserted |-> 0, matched |-> 0, modified |-> 0,
          errors |-> 0, raised |-> "Exception"]
    ELSE LET acc == ExecuteOps(
                 [store |-> coll.store, unique |-> coll.unique, upserted |-> 0,
                  matched |-> 0, modified |-> 0, errors |-> 0],
                 ops, 1, ordered, fate.failing)
         IN  [store |-> acc.store, upserted |-> acc.upserted,
              matched |-> acc.matched, modified |-> acc.modified,
              errors |-> acc.errors,
              raised |-> IF acc.errors > 0 THEN "BulkWriteError" ELSE "none"]

\* ordered left at its default
BulkOrdered_Default == TRUE

\* ordered=False
BulkOrdered == FALSE

\* Only `except BulkWriteError`
WriterCatches_BulkWriteErrorOnly(exc) == exc = "BulkWriteError"

\* The except clauses of load_data_to_mongo: BulkWriteError, then Exception
WriterCatches(exc) == exc \in {"BulkWriteError", "Exception"}

\* load_data_to_mongo(collection, operations): the collection afterwards,
\* whether bulk_write was called, what it logged and whether it raised
load_data_to_mongo(coll, ops, fate) ==
    IF ops = <<>>
    THEN [store |-> coll.store, called |-> FALSE, raises |-> FALSE,
          log |-> "no_operations",
          upserted |-> 0, matched |-> 0, modified |-> 0, errors |-> 0]
    ELSE LET r == bulk_write(coll, ops, BulkOrdered, fate)
         IN  [store |-> r.store,
              called |-> TRUE,
              raises |-> r.raised # "none" /\ ~WriterCatches(r.raised),
              log |-> CASE r.raised = "none" -> "result"
                        [] r.raised = "BulkWriteError" -> "write_errors"
                        [] OTHER -> "unexpected_error",
              upserted |-> r.upserted, matched |-> r.matched,
              modified |-> r.modified, errors |-> r.errors]

-----------------------------------------------------------------------------
(* Variable groups *)

sigVars == <<sigFile, sigResult>>

loadVars == <<cells, table, operations, results, phase>>

pipeVars == <<pc, file, checks, time_dim, engineIdx, handles,
              open_errors, ds, total_steps, i, chunkLog, escaped,
              processed_records_in_file, logged_records>>

storeVars == <<store, uniqueIndex>>

mainVars == <<mpc, clients, client, file_list, index, attempted, finished,
              failure, pending, exit_status>>

seedVars == <<seed_pc, month, months_attempted, attempts, before,
              output_file, invalid_file, attempt_log>>

vars == <<sigVars, loadVars, storeVars, pipeVars, mainVars, seedVars>>

\* No file: the value of `file` between calls
NoFile == [exists |-> FALSE, size |-> 0, dims |-> {},
           header |-> [readable |-> FALSE, content |-> <<>>]]

\* The values the variables of the other specifications rest at
SigOff == sigFile = [readable |-> FALSE, content |-> <<>>] /\ sigResult = "off"

LoadOff ==
    /\ cells = <<>> /\ table = <<>> /\ operations = <<>> /\ results = <<>>
    /\ phase = "off"

PipeOff ==
    /\ pc = "off" /\ file = NoFile /\ checks = <<>>
    /\ time_dim = "none" /\ engineIdx = 0 /\ handles = <<>> /\ open_errors = <<>>
    /\ ds = 0 /\ total_steps = -1 /\ i = 0 /\ chunkLog = <<>> /\ escaped = FALSE
    /\ processed_records_in_file = 0 /\ logged_records = -1

MainOff ==
    /\ mpc = "off" /\ clients = <<>> /\ client = 0 /\ file_list = <<>>
    /\ index = 0 /\ attempted = <<>> /\ finished = FALSE /\ failure = "none"
    /\ pending = "none" /\ exit_status = -1

\* No file at a path: open() raises
AbsentFile == [readable |-> FALSE, content |-> <<>>]

SeedOff ==
    /\ seed_pc = "off" /\ month = 0 /\ months_attempted = <<>> /\ attempts = 0
    /\ before = AbsentFile /\ output_file = AbsentFile
    /\ invalid_file = AbsentFile /\ attempt_log = <<>>

-----------------------------------------------------------------------------
(* SpecSig: the header check applied to a file *)

\* Byte values the sampled files are made of: those of the two signatures,
\* the classic version bytes and some others
ByteSample == {0, 1, 2, 5, 10, 13, 26, 67, 68, 70, 72, 137}

\* s padded with zero bytes to n bytes
Pad(s, n) == [k \in 1..n |-> IF k <= Len(s) THEN s[k] ELSE 0]

\* Well-formed files: classic version 1 and 2, and the HDF5 container
BaseContents ==
    {Pad(CDF_MAGIC \o <<1>>, MaxContentLen),
     Pad(CDF_MAGIC \o <<2>>, MaxContentLen),
     Pad(HDF5_SIGNATURE, MaxContentLen)}

\* Every truncation of a well-formed file with at most one byte replaced
SigContents ==
    {<<>>} \cup
    {[SubSeq(b, 1, n) EXCEPT ![p] = x] :
        <<b, n, p, x>> \in
            {t \in BaseContents \X (1..MaxContentLen) \X (1..MaxContentLen) \X ByteSample :
                t[3] <= t[2]}}

SigFiles ==
    {[readable |-> TRUE, content |-> c] : c \in SigContents}
    \cup {[readable |-> FALSE, content |-> <<>>]}

InitSig ==
    /\ sigFile \in SigFiles
    /\ sigResult = "pending"
    /\ LoadOff /\ PipeOff /\ MainOff /\ SeedOff
    /\ store = EmptyBag /\ uniqueIndex = TRUE

CheckSignature ==
    /\ sigResult = "pending"
    /\ sigResult' = IF _is_probably_netcdf(sigFile) THEN "accept" ELSE "reject"
    /\ UNCHANGED <<sigFile, loadVars, storeVars, pipeVars, mainVars, seedVars>>

NextSig == CheckSignature

SpecSig == InitSig /\ [][NextSig]_vars

\* C7: _is_probably_netcdf accepts a file if and only if its first 4 bytes
\* are 'CDF' followed by the version byte 0x01 or 0x02, or its first 8 bytes
\* are the HDF5 signature; an unreadable file is rejected.
C7_ClaimedAccept(f) ==
    /\ f.readable
    /\ \/ /\ Len(f.content) >= 4
          /\ SubSeq(f.content, 1, 3) = <<67, 68, 70>>
          /\ f.content[4] \in {1, 2}
       \/ /\ Len(f.content) >= 8
          /\ SubSeq(f.content, 1, 8) = <<137, 72, 68, 70, 13, 10, 26, 10>>

C7_SignatureExact ==
    sigResult \in {"accept", "reject"} =>
        (sigResult = "accept" <=> C7_ClaimedAccept(sigFile))

-----------------------------------------------------------------------------
(* SpecLoad: the data path of one chunk, the batch written repeatedly *)

\* A grid cell
Cell(tc, t, lat, lon, t2m, u10, v10) ==
    (tc :> t) @@
    [latitude |-> lat, longitude |-> lon, t2m |-> t2m, u10 |-> u10, v10 |-> v10]

\* Tenths of a degree: a latitude, and the longitudes of the grid
Lat0 == Num(194)

LonOf(k) == k - 992

\* Raw values of a land cell with temperature only, and of one with all three
\* variables (300.15 K; 283.15 K, u = 3 m/s, v = 4 m/s)
TempOnlyRaw == <<Num(30015), NaN, NaN>>

FullRaw == <<Num(28315), Num(3), Num(4)>>

\* Rows of the many-row tables: NumLons grid points with all three
\* variables, the first of them also with temperature only
GridCells ==
    {Cell("valid_time", 0, Lat0, Num(LonOf(k)), FullRaw[1], FullRaw[2], FullRaw[3]) :
        k \in 1..NumLons}
    \cup {Cell("valid_time", 0, Lat0, Num(LonOf(1)),
               TempOnlyRaw[1], TempOnlyRaw[2], TempOnlyRaw[3])}

\* The (u10, v10) pairs of the one-row tables: calm air with either sign of
\* each zero, the four axes, the 3-4-5 triangle in each quadrant, a wind one
\* part in 120 off each axis, and pairs with an undefined component
WindSamples ==
    ({Num(0), NegZero} \X {Num(0), NegZero})
    \cup {<<Num(0), Num(4)>>, <<Num(3), Num(0)>>, <<Num(0), Num(-4)>>, <<Num(-3), Num(0)>>}
    \cup {<<NegZero, Num(4)>>, <<Num(3), NegZero>>, <<NegZero, Num(-4)>>, <<Num(-3), NegZero>>}
    \cup {<<Num(3), Num(4)>>, <<Num(3), Num(-4)>>, <<Num(-3), Num(4)>>, <<Num(-3), Num(-4)>>}
    \cup {<<Num(1), Num(-120)>>, <<Num(-1), Num(-120)>>, <<Num(1), Num(120)>>,
          <<Num(-1), Num(120)>>, <<Num(120), Num(1)>>, <<Num(120), Num(-1)>>,
          <<Num(-120), Num(1)>>, <<Num(-120), Num(-1)>>}
    \cup {<<NaN, Num(4)>>, <<Num(-3), NaN>>, <<NaN, NaN>>}

\* Cells of the one-row tables: either name of the time column, each
\* coordinate and the temperature defined or not, each wind sample
EdgeCells ==
    {Cell(tc, 1, lat, lon, t2m, w[1], w[2]) :
        tc \in TimeDims,
        lat \in {Lat0, NaN}, lon \in {Num(LonOf(1)), NaN},
        t2m \in {Num(KELVIN_OFFSET), NaN},
        w \in WindSamples}

SeqsUpTo(S, n) == UNION {[1..m -> S] : m \in 0..n}

LoadTables == SeqsUpTo(GridCells, MaxRows) \cup {<<c>> : c \in EdgeCells}

\* The table and the batch process_netcdf_file derives from a loaded chunk:
\* an empty table is passed over before prepare_bulk_operations is called
ChunkBatch(cs) ==
    LET df == Flatten(cs)
    IN  [df |-> df,
         operations |-> IF df = <<>> THEN <<>> ELSE prepare_bulk_operations(df)]

InitLoad ==
    /\ cells \in LoadTables
    /\ table = <<>>
    /\ operations = <<>>
    /\ results = <<>>
    /\ phase = "raw"
    /\ store = EmptyBag
    /\ uniqueIndex \in BOOLEAN
    /\ SigOff /\ PipeOff /\ MainOff /\ SeedOff

BuildBatch ==
    /\ phase = "raw"
    /\ table' = ChunkBatch(cells).df
    /\ operations' = ChunkBatch(cells).operations
    /\ phase' = "built"
    /\ UNCHANGED <<cells, results, storeVars, sigVars, pipeVars, mainVars, seedVars>>

\* load_data_to_mongo(collection, operations), under each fate of the call
WriteBatch ==
    /\ phase = "built"
    /\ Len(results) < MaxWrites
    /\ \E fate \in WriteFates(operations) :
          LET r == load_data_to_mongo(Collection, operations, fate)
          IN  /\ store' = r.store
              /\ results' = Append(results,
                     [fate |-> fate, called |-> r.called, raises |-> r.raises,
                      log |-> r.log, upserted |-> r.upserted,
                      matched |-> r.matched, modified |-> r.modified,
                      after |-> r.store])
    /\ UNCHANGED <<cells, table, operations, phase, uniqueIndex, sigVars, pipeVars, mainVars, seedVars>>

NextLoad == BuildBatch \/ WriteBatch

SpecLoad == InitLoad /\ [][NextLoad]_vars

-----------------------------------------------------------------------------
(* SpecBuild: prepare_bulk_operations applied to a table *)

\* A row of a table
Row(tc, t, lat, lon, temperature_c, speed, direction) ==
    (tc :> t) @@
    [latitude |-> lat, longitude |-> lon, temperature_c |-> temperature_c,
     wind_speed_mps |-> speed, wind_direction_deg |-> direction]

\* The rows of the sampled tables: two well-formed ones (the second with no
\* wind), one per kind of coordinate that is no finite number, one whose
\* temperature is no number, one with no weather value
BuildRows ==
    {Row("valid_time", 1, Lat0, Num(LonOf(1)), Num(1000), Num(5), Num(21687)),
     Row("valid_time", 1, Lat0, Num(LonOf(2)), Num(-250), NaN, NaN),
     Row("valid_time", 1, PosInf, Num(LonOf(1)), Num(1000), Num(5), Num(21687)),
     Row("valid_time", 1, Lat0, NaN, Num(1000), Num(5), Num(21687)),
     Row("valid_time", 1, NoneValue, Num(LonOf(1)), Num(1000), Num(5), Num(21687)),
     Row("valid_time", 1, Lat0, StrValue, Num(1000), Num(5), Num(21687)),
     Row("valid_time", 1, Lat0, Num(LonOf(3)), StrValue, Num(5), Num(21687)),
     Row("valid_time", 1, Lat0, Num(LonOf(3)), NaN, NaN, NaN)}

\* Tables of one to MaxRows rows
BuildTables == SeqsUpTo(BuildRows, MaxRows) \ {<<>>}

InitBuild ==
    /\ table \in BuildTables
    /\ cells = <<>> /\ operations = <<>> /\ results = <<>>
    /\ phase = "table"
    /\ store = EmptyBag /\ uniqueIndex = TRUE
    /\ SigOff /\ PipeOff /\ MainOff /\ SeedOff

\* operations = prepare_bulk_operations(df)
PrepareOperations ==
    /\ phase = "table"
    /\ operations' = prepare_bulk_operations(table)
    /\ phase' = "prepared"
    /\ UNCHANGED <<cells, table, results, storeVars, sigVars, pipeVars, mainVars, seedVars>>

NextBuild == PrepareOperations

SpecBuild == InitBuild /\ [][NextBuild]_vars

\* The record is well-formed: its coordinates are finite numbers, its
\* weather values are numbers and not all of them NaN
C14_WellFormed(r) ==
    /\ r.latitude.kind = "num" /\ r.longitude.kind = "num"
    /\ IsNumber(r.temperature_c) /\ IsNumber(r.wind_speed_mps)
    /\ IsNumber(r.wind_direction_deg)
    /\ ~(isnan(r.temperature_c) /\ isnan(r.wind_speed_mps)
            /\ isnan(r.wind_direction_deg))

\* C14: prepare_bulk_operations emits an operation only for the records
\* whose latitude and longitude are both finite numbers (a missing,
\* non-numeric, NaN or infinite coordinate drops the record); a record that
\* is dropped or whose construction raises does not keep the other records
\* of the table from getting their operations, in the table's order.
C14_RecordIsolation ==
    phase = "prepared" =>
        LET kept == SelectSeq(table, C14_WellFormed)
        IN  /\ Len(operations) = Len(kept)
            /\ \A k \in 1..Len(operations) :
                  operations[k].filter =
                      [timestamp |-> kept[k][TimeColOf(kept[k])],
                       latitude  |-> kept[k].latitude.val,
                       longitude |-> kept[k].longitude.val]

\* The (timestamp, latitude, longitude) keys of the batch are pairwise distinct
DistinctKeys(ops) ==
    \A a, b \in 1..Len(ops) :
        a # b =>
            <<ops[a].set.timestamp, ops[a].set.latitude, ops[a].set.longitude>>
            # <<ops[b].set.timestamp, ops[b].set.latitude, ops[b].set.longitude>>

\* The w-th write of the batch went through with no error at all
CleanWrite(w) == w <= Len(results) /\ results[w].log = "result"

\* C1: a batch of N operations with pairwise distinct keys, written to an
\* empty store and then written again, leaves the same document set after the
\* second write as after the first, with counts inserted = N, matched = 0 on
\* the first write and inserted = 0, matched = N on the second.
C1_Idempotent ==
    (CleanWrite(1) /\ CleanWrite(2) /\ DistinctKeys(operations)) =>
        /\ results[1].upserted = Len(operations)
        /\ results[1].matched = 0
        /\ results[2].upserted = 0
        /\ results[2].matched = Len(operations)
        /\ results[2].after = results[1].after
        /\ BagCardinality(results[1].after) = Len(operations)

C1_Witness ==
    /\ CleanWrite(1) /\ CleanWrite(2)
    /\ DistinctKeys(operations)
    /\ Len(operations) = 3
    /\ results[2].matched = 3
    /\ store = results[1].after

\* The last operation of the batch, among those the server did not refuse,
\* that has the same filter as operation k
LastWithKey(ops, failing, k) ==
    CHOOSE m \in (1..Len(ops)) \ failing :
        /\ ops[m].filter = ops[k].filter
        /\ \A n \in (1..Len(ops)) \ failing :
              ops[n].filter = ops[k].filter => n <= m

\* C3: when one operation of a batch fails, every other operation of the
\* batch is still applied to the store (its document is in the collection
\* after the call), whatever the position of the failing one, and
\* load_data_to_mongo returns without raising.
C3_UnorderedBatch ==
    \A w \in 1..Len(results) :
        (~results[w].fate.total /\ results[w].fate.failing # {}) =>
            /\ ~results[w].raises
            /\ \A k \in (1..Len(operations)) \ results[w].fate.failing :
                  operations[LastWithKey(operations, results[w].fate.failing, k)].set
                      \in BagToSet(results[w].after)

C3_Witness ==
    /\ Len(results) = 1
    /\ Len(operations) = 3
    /\ DistinctKeys(operations)
    /\ results[1].fate = [total |-> FALSE, failing |-> {1}]
    /\ results[1].log = "write_errors"
    /\ operations[2].set \in BagToSet(store)
    /\ operations[3].set \in BagToSet(store)

C5_Keeps(c) ==
    /\ c.latitude.kind = "num" /\ c.longitude.kind = "num"
    /\ \/ c.t2m.kind = "num"
       \/ c.u10.kind = "num" /\ c.v10.kind = "num"

C5_TempOnly(c) ==
    c.t2m.kind = "num" /\ ~(c.u10.kind = "num" /\ c.v10.kind = "num")

\* C5: a (time, lat, lon) point produces an upsert operation if and only if
\* at least one of temperature, wind speed and wind direction is defined and
\* its coordinates are valid; a point with only temperature defined is kept
\* with windSpeed and windDirection stored as null.
C5_DropRule ==
    phase = "built" =>
        LET kept == SelectSeq(cells, C5_Keeps)
        IN  /\ Len(operations) = Len(kept)
            /\ \A k \in 1..Len(kept) :
                  /\ operations[k].filter =
                        [timestamp |-> kept[k][TimeColOf(kept[k])],
                         latitude  |-> kept[k].latitude.val,
                         longitude |-> kept[k].longitude.val]
                  /\ C5_TempOnly(kept[k]) =>
                        /\ ~operations[k].set.temperature.null
                        /\ operations[k].set.windSpeed.null
                        /\ operations[k].set.windDirection.null

C5_Witness ==
    /\ phase = "built"
    /\ Len(cells) = 1
    /\ C5_Keeps(cells[1]) /\ C5_TempOnly(cells[1])
    /\ cells[1].u10.kind = "num"
    /\ Len(operations) = 1
    /\ operations[1].set.temperature = [null |-> FALSE, val |-> 0]
    /\ operations[1].set.windSpeed.null

-----------------------------------------------------------------------------
(* Spec: process_netcdf_file on a sequence of files *)

TIME_CHUNK_SIZE == 24 * 7

\* 1024 * 10 bytes
MIN_FILE_SIZE == 1024 * 10

\* The engines in another order
Engines_ScipyFirst == <<"scipy", "netcdf4", "h5netcdf">>

\* for engine in ("netcdf4", "h5netcdf", "scipy")
Engines == <<"netcdf4", "h5netcdf", "scipy">>

\* The validation without the size check
Validation_NoSizeCheck(f) ==
    IF ~f.exists
    THEN [checks |-> <<"exists">>, proceed |-> FALSE]
    ELSE IF ~_is_probably_netcdf(f.header)
    THEN [checks |-> <<"exists", "signature">>, proceed |-> FALSE]
    ELSE [checks |-> <<"exists", "signature">>, proceed |-> TRUE]

\* The validation at the head of process_netcdf_file: the checks evaluated,
\* in order, and whether the file goes on to be opened
Validation(f) ==
    IF ~f.exists
    THEN [checks |-> <<"exists">>, proceed |-> FALSE]
    ELSE IF f.size < MIN_FILE_SIZE
    THEN [checks |-> <<"exists", "size">>, proceed |-> FALSE]
    ELSE IF ~_is_probably_netcdf(f.header)
    THEN [checks |-> <<"exists", "size", "signature">>, proceed |-> FALSE]
    ELSE [checks |-> <<"exists", "size", "signature">>, proceed |-> TRUE]

\* The sampled contents: a classic NetCDF file with a "time" dimension, an
\* HDF5 one with "valid_time" (ERA5-Land), an HTML page
ContentSamples ==
    {[head |-> <<67, 68, 70, 1, 0, 0, 0, 0>>, dims |-> {"time"}],
     [head |-> HDF5_SIGNATURE, dims |-> {"valid_time"}],
     [head |-> <<60, 33, 68, 79, 67, 84, 89, 80>>, dims |-> {}]}

\* Sizes on either side of the threshold
FileSizes == {MIN_FILE_SIZE - 1, MIN_FILE_SIZE}

\* The files glob can hand over: gone since, or present with a size, an
\* access right and a content
PipelineFiles ==
    {NoFile} \cup
    {[exists |-> TRUE, size |-> sz, dims |-> c.dims,
      header |-> [readable |-> r, content |-> SubSeq(c.head, 1, Min(8, sz))]] :
        sz \in FileSizes, c \in ContentSamples, r \in BOOLEAN}

\* One pass of the engine loop on the handles: the probe handle is opened and
\* closed, then the chunked handle is opened; either open can raise
OpenAttempt(hs, outcome) ==
    CASE outcome = "probe_raises" -> hs
      [] outcome = "chunked_raises" -> Append(hs, 1)
      [] outcome = "opened" -> hs \o <<1, 0>>

\* 'valid_time' if 'valid_time' in ds.dims else 'time'
TimeDimOf(dims) == IF "valid_time" \in dims THEN "valid_time" ELSE "time"

\* No close in the finally clause
CloseDataset_Missing(hs, d) == hs

\* ds.close() in the finally clause
CloseDataset(hs, d) ==
    IF d # 0 THEN [hs EXCEPT ![d] = @ + 1] ELSE hs

\* len(ds[time_dim]): the step counts of the sampled files
StepCounts ==
    {n * TIME_CHUNK_SIZE + r : n \in 0..MaxChunks, r \in {0, 1}}

\* start_step and end_step of the chunk the loop variable stands at
start_step(iv) == iv

\* end_step without the min
end_step_NoMin(iv, total) == iv + TIME_CHUNK_SIZE

end_step(iv, total) == Min(iv + TIME_CHUNK_SIZE, total)

\* range(0, total_steps, TIME_CHUNK_SIZE): the next value of the loop variable
NextChunk(iv) == iv + TIME_CHUNK_SIZE

\* Only `except KeyError`
ChunkHandler_KeyErrorOnly(exc) ==
    CASE exc = "KeyError" -> "key_error"
      [] OTHER -> "unhandled"

\* The except clause of the chunk's try that takes an exception: KeyError,
\* then Exception; "unhandled" when none does
ChunkHandler(exc) ==
    CASE exc = "KeyError" -> "key_error"
      [] exc = "Exception" -> "error"
      [] OTHER -> "unhandled"

\* The except clause of the outer try: Exception
OuterCatches(exc) == exc \in {"KeyError", "Exception"}

\* The stages of a chunk's processing that can raise, and what each raises;
\* "build" is prepare_bulk_operations, called once the table exists and its
\* rows are counted
FailStages == {"load", "missing_variable", "transform", "flatten", "build"}

StageRaises(stage) == IF stage = "missing_variable" THEN "KeyError" ELSE "Exception"

\* Raw values of an ocean cell
NoDataRaw == <<NaN, NaN, NaN>>

\* The cells sampled from the chunk starting at step t: an ocean point, a
\* point whose latitude was lost (NaN) and a land point, all at that step
ChunkCells(tc, t) ==
    [kind \in {"ocean", "nocoord", "land"} |->
        CASE kind = "ocean" ->
                 Cell(tc, t, Lat0, Num(LonOf(1)), NaN, NaN, NaN)
          [] kind = "nocoord" ->
                 Cell(tc, t, NaN, Num(LonOf(1)), FullRaw[1], FullRaw[2], FullRaw[3])
          [] kind = "land" ->
                 Cell(tc, t, Lat0, Num(LonOf(1)), FullRaw[1], FullRaw[2], FullRaw[3])]

\* The sampled tables of a chunk: at most one ocean row, then land rows, at
\* most MaxChunkRows rows in all
ChunkTables(tc, t) ==
    {[k \in 1..(p[1] + p[2]) |->
        ChunkCells(tc, t)[IF k <= p[1] THEN "ocean" ELSE "land"]] :
            p \in {q \in (0..1) \X (0..MaxChunkRows) :
                       q[1] + q[2] <= MaxChunkRows}}

\* The same tables, and those that start with a row without latitude
CountTables(tc, t) ==
    ChunkTables(tc, t) \cup
    {<<ChunkCells(tc, t)["nocoord"]>> \o cs :
        cs \in {c \in ChunkTables(tc, t) : Len(c) < MaxChunkRows}}

ChunkFates(ops) ==
    IF ops = <<>> THEN {[total |-> FALSE, failing |-> {}]} ELSE WriteFates(ops)

\* A chunk input whose table is the cells cs: the table after the drop and
\* the batch built from it
ChunkInput(kind, stage, cs, b, fate) ==
    [kind |-> kind, stage |-> stage, cells |-> cs, df |-> b.df,
     operations |-> b.operations, fate |-> fate]

\* The inputs a table gives: prepare_bulk_operations raises on it if it holds
\* one record, or it is built and the write meets a fate
TableInputs(cs, b) ==
    (IF Len(b.df) = 1
     THEN {ChunkInput("raises", "build", cs, b, [total |-> FALSE, failing |-> {}])}
     ELSE {})
    \cup {ChunkInput("data", "none", cs, b, ft) : ft \in ChunkFates(b.operations)}

\* What can happen to one chunk whose table is one of `tables`: a stage
\* raises before the table exists, or the table is reached
ChunkInputs(tables) ==
    {ChunkInput("raises", st, <<>>, [df |-> <<>>, operations |-> <<>>],
                [total |-> FALSE, failing |-> {}]) : st \in FailStages \ {"build"}}
    \cup UNION {TableInputs(cs, ChunkBatch(cs)) : cs \in tables}

\* The batch handed to collection.bulk_write as it is
ChunkLoad_DirectWrite(coll, ops, fate) ==
    LET r == bulk_write(coll, ops, BulkOrdered, fate)
    IN  [store |-> r.store, called |-> TRUE, raises |-> r.raised # "none",
         log |-> "none", upserted |-> r.upserted, matched |-> r.matched,
         modified |-> r.modified, errors |-> r.errors]

\* `if operations: load_data_to_mongo(collection, operations)`, else a warning
ChunkLoad(coll, ops, fate) ==
    IF ops # <<>>
    THEN load_data_to_mongo(coll, ops, fate)
    ELSE [store |-> coll.store, called |-> FALSE, raises |-> FALSE,
          log |-> "no_operations_generated",
          upserted |-> 0, matched |-> 0, modified |-> 0, errors |-> 0]

\* The number of operations taken for the number of records
num_records_in_chunk_Operations(df, ops) == Len(ops)

\* num_records_in_chunk = len(df), taken before the batch is built
num_records_in_chunk(df, ops) == Len(df)

\* What a chunk that built the batch b and got r from ChunkLoad leaves
ChunkLoaded(b, r) ==
    [store |-> r.store, rows |-> Len(b.df),
     counted |-> num_records_in_chunk(b.df, b.operations),
     nops |-> Len(b.operations),
     writes |-> IF r.called THEN <<Len(b.operations)>> ELSE <<>>,
     matched |-> IF r.log = "result" THEN r.matched ELSE 0,
     ended |-> IF r.raises THEN "raised"
               ELSE IF b.operations = <<>> THEN "no_operations"
               ELSE "loaded",
     exc |-> IF r.raises THEN "Exception" ELSE "none"]

\* `if df.empty: continue`, else the count, the batch and the load
ChunkData(coll, b, fate) ==
    IF b.df = <<>>
    THEN [store |-> coll.store, rows |-> 0, counted |-> 0, nops |-> 0,
          writes |-> <<>>, matched |-> 0, ended |-> "empty", exc |-> "none"]
    ELSE ChunkLoaded(b, ChunkLoad(coll, b.operations, fate))

\* A chunk one of whose stages raises, df being the table if it was reached
ChunkRaised(coll, stage, df) ==
    [store |-> coll.store, rows |-> Len(df),
     counted |-> num_records_in_chunk(df, <<>>),
     nops |-> 0, writes |-> <<>>, matched |-> 0,
     ended |-> "raised", exc |-> StageRaises(stage)]

\* The body of the chunk's try block: the collection afterwards, the rows of
\* the table it reached, the number added to the file's count, the operations
\* the batch builder emitted, the length of each list handed to
\* collection.bulk_write, the matched count logged, and the exception the
\* body ends with ("none": it ran to its end or to `continue`)
ChunkBody(coll, in) ==
    IF in.kind = "raises"
    THEN ChunkRaised(coll, in.stage, in.df)
    ELSE ChunkData(coll, [df |-> in.df, operations |-> in.operations], in.fate)

InitPipe ==
    /\ pc = "idle" /\ file = NoFile /\ checks = <<>>
    /\ time_dim = "none" /\ engineIdx = 0 /\ handles = <<>> /\ open_errors = <<>>
    /\ ds = 0 /\ total_steps = -1 /\ i = 0 /\ chunkLog = <<>> /\ escaped = FALSE
    /\ processed_records_in_file = 0 /\ logged_records = -1
    /\ store = EmptyBag
    /\ uniqueIndex \in BOOLEAN
    /\ SigOff /\ LoadOff /\ MainOff /\ SeedOff

\* process_netcdf_file(filepath, collection) is called: the validation
ValidateFile ==
    /\ pc \in {"idle", "returned"}
    /\ \E f \in PipelineFiles :
          /\ file' = f
          /\ checks' = Validation(f).checks
          /\ pc' = IF Validation(f).proceed THEN "open" ELSE "returned"
          /\ engineIdx' = IF Validation(f).proceed THEN 1 ELSE 0
    /\ time_dim' = "none" /\ handles' = <<>> /\ open_errors' = <<>> /\ ds' = 0
    /\ total_steps' = -1 /\ i' = 0 /\ chunkLog' = <<>> /\ escaped' = FALSE
    /\ processed_records_in_file' = 0 /\ logged_records' = -1
    /\ UNCHANGED <<storeVars, sigVars, loadVars, mainVars, seedVars>>

\* One pass of `for engine in ("netcdf4", "h5netcdf", "scipy")`
TryEngine ==
    /\ pc = "open"
    /\ engineIdx \in 1..Len(Engines)
    /\ \E outcome \in {"probe_raises", "chunked_raises", "opened"} :
          /\ handles' = OpenAttempt(handles, outcome)
          /\ IF outcome = "opened"
             THEN /\ ds' = Len(handles) + 2
                  /\ time_dim' = TimeDimOf(file.dims)
                  /\ pc' = "chunks"
                  /\ UNCHANGED <<open_errors, engineIdx>>
             ELSE /\ open_errors' = Append(open_errors, Engines[engineIdx])
                  /\ engineIdx' = engineIdx + 1
                  /\ UNCHANGED <<ds, time_dim, pc>>
    /\ UNCHANGED <<file, checks, total_steps, i, chunkLog, escaped,
                   processed_records_in_file, logged_records,
                   storeVars, sigVars, loadVars, mainVars, seedVars>>

\* `if ds is None`: no engine opened the file
AllEnginesFailed ==
    /\ pc = "open"
    /\ engineIdx > Len(Engines)
    /\ pc' = "returned"
    /\ UNCHANGED <<file, checks, time_dim, engineIdx, handles, open_errors,
                   ds, total_steps, i, chunkLog, escaped,
                   processed_records_in_file, logged_records,
                   storeVars, sigVars, loadVars, mainVars, seedVars>>

\* The head of the outer try: the step count is read, or reading it raises
SetupChunks ==
    /\ pc = "chunks"
    /\ \E total \in StepCounts \cup {-1} :
          IF total >= 0
          THEN /\ total_steps' = total
               /\ processed_records_in_file' = 0
               /\ i' = 0
               /\ pc' = "loop"
               /\ UNCHANGED escaped
          ELSE /\ pc' = "finally"
               /\ escaped' = ~OuterCatches("Exception")
               /\ UNCHANGED <<total_steps, i, processed_records_in_file>>
    /\ UNCHANGED <<file, checks, time_dim, engineIdx, handles, open_errors,
                   ds, chunkLog, logged_records,
                   storeVars, sigVars, loadVars, mainVars, seedVars>>

\* One pass of `for i in range(0, total_steps, TIME_CHUNK_SIZE)` on one of
\* `inputs`
ChunkPass(inputs) ==
    /\ pc = "loop"
    /\ i < total_steps
    /\ \E in \in inputs :
          LET r == ChunkBody(Collection, in)
              handler == IF r.exc = "none" THEN "none" ELSE ChunkHandler(r.exc)
          IN  /\ store' = r.store
              /\ chunkLog' = Append(chunkLog,
                     [start |-> start_step(i), end |-> end_step(i, total_steps),
                      outcome |-> IF r.exc = "none" THEN r.ended ELSE handler,
                      rows |-> r.rows, writes |-> r.writes,
                      nops |-> r.nops, matched |-> r.matched])
              /\ processed_records_in_file' = processed_records_in_file + r.counted
              /\ IF handler = "unhandled"
                 THEN /\ pc' = "finally"
                      /\ escaped' = ~OuterCatches(r.exc)
                      /\ UNCHANGED i
                 ELSE /\ i' = NextChunk(i)
                      /\ UNCHANGED <<pc, escaped>>
    /\ UNCHANGED <<file, checks, time_dim, engineIdx, handles, open_errors,
                   ds, total_steps, logged_records, uniqueIndex,
                   sigVars, loadVars, mainVars, seedVars>>

ProcessChunk == ChunkPass(ChunkInputs(ChunkTables(time_dim, start_step(i))))

\* The loop is exhausted: "Finished processing file"
FinishChunks ==
    /\ pc = "loop"
    /\ i >= total_steps
    /\ logged_records' = processed_records_in_file
    /\ pc' = "finally"
    /\ UNCHANGED <<file, checks, time_dim, engineIdx, handles, open_errors,
                   ds, total_steps, i, chunkLog, escaped,
                   processed_records_in_file,
                   storeVars, sigVars, loadVars, mainVars, seedVars>>

\* The finally clause
CloseFile ==
    /\ pc = "finally"
    /\ handles' = CloseDataset(handles, ds)
    /\ pc' = "returned"
    /\ UNCHANGED <<file, checks, time_dim, engineIdx, open_errors,
                   ds, total_steps, i, chunkLog, escaped,
                   processed_records_in_file, logged_records,
                   storeVars, sigVars, loadVars, mainVars, seedVars>>

Next ==
    \/ ValidateFile
    \/ TryEngine
    \/ AllEnginesFailed
    \/ SetupChunks
    \/ ProcessChunk
    \/ FinishChunks
    \/ CloseFile

Spec == InitPipe /\ [][Next]_vars

\* C2: after any sequence of files, chunks and repeated runs from an empty
\* store, the store holds at most one document per (timestamp, latitude,
\* longitude) triple, also when the triple occurs in several batches or
\* several times in one batch.
C2_OneDocumentPerKey ==
    /\ \A d \in BagToSet(store) : CopiesIn(d, store) = 1
    /\ \A d, e \in BagToSet(store) :
          (d.timestamp = e.timestamp /\ d.latitude = e.latitude
              /\ d.longitude = e.longitude) => d = e

\* A second file rewrites, twice in one batch, a key an earlier file wrote,
\* on a collection whose unique index was not created
C2_Witness ==
    /\ ~uniqueIndex
    /\ pc = "returned"
    /\ Len(chunkLog) = 2
    /\ chunkLog[1].nops = 2 /\ chunkLog[1].matched = 2
    /\ chunkLog[2].nops = 2 /\ chunkLog[2].matched = 1
    /\ BagCardinality(store) = 2

\* The file fails the validation: missing, under 10 KiB, or a header the
\* signature check rejects
C6_Invalid(f) ==
    \/ ~f.exists
    \/ f.size < 10240
    \/ ~_is_probably_netcdf(f.header)

\* C6: a file that is missing, smaller than 10 KiB or whose header fails the
\* signature check is skipped: process_netcdf_file returns with no backend
\* open attempted, no chunk processed, no write issued and nothing raised;
\* the size check comes before the signature check (the header of a file
\* that is too small is never looked at).
C6_ValidationGate ==
    (pc # "idle" /\ C6_Invalid(file)) =>
        /\ pc = "returned"
        /\ engineIdx = 0 /\ handles = <<>> /\ open_errors = <<>> /\ ds = 0
        /\ chunkLog = <<>>
        /\ ~escaped
        /\ ~file.exists => checks = <<"exists">>
        /\ (file.exists /\ file.size < 10240) => checks = <<"exists", "size">>
        /\ (file.exists /\ file.size >= 10240) =>
              checks = <<"exists", "size", "signature">>

\* A file one byte under the threshold whose header is a valid signature
C6_Witness ==
    /\ pc = "returned"
    /\ file.exists /\ file.size = 10239
    /\ _is_probably_netcdf(file.header)
    /\ checks = <<"exists", "size">>
    /\ handles = <<>> /\ chunkLog = <<>>
    /\ BagCardinality(store) = 1

\* C8: every dataset handle process_netcdf_file opened (the probe handle of
\* each engine attempt, the chunked handle) has had close() called on it
\* exactly once when the function returns, on every exit path, and never
\* more than once before.
C8_HandlesClosedOnce ==
    /\ \A k \in 1..Len(handles) : handles[k] <= 1
    /\ pc = "returned" => \A k \in 1..Len(handles) : handles[k] = 1

\* Two engines opened the probe but not the chunked handle, the third opened
\* both, and reading the step count raised
C8_Witness ==
    /\ pc = "returned"
    /\ handles = <<1, 1, 1, 1>>
    /\ ds = 4
    /\ total_steps = -1
    /\ open_errors = <<"netcdf4", "h5netcdf">>

\* C9: for a file of T steps and chunk size C the loop visits the ranges
\* [i, min(i + C, T)) for i = 0, C, 2C, ... in ascending order: non-empty,
\* contiguous, each of at most C steps, only the last one shorter; once the
\* loop is over they cover 0..T-1, their number is ceil(T / C), and T = 0
\* gives none.
C9_SlicePartition ==
    total_steps >= 0 =>
        LET n == Len(chunkLog)
            T == total_steps
            C == 168
        IN  /\ \A k \in 1..n :
                  /\ chunkLog[k].start = (k - 1) * C
                  /\ chunkLog[k].start < chunkLog[k].end
                  /\ chunkLog[k].end <= T
                  /\ chunkLog[k].end - chunkLog[k].start <= C
                  /\ k < n => /\ chunkLog[k].end - chunkLog[k].start = C
                              /\ chunkLog[k + 1].start = chunkLog[k].end
            /\ pc \in {"finally", "returned"} =>
                  /\ n > 0 => chunkLog[n].end = T
                  /\ T = 0 <=> n = 0
                  /\ (n - 1) * C < T /\ T <= n * C

C9_Witness ==
    /\ pc = "returned"
    /\ total_steps = 169
    /\ Len(chunkLog) = 2
    /\ chunkLog[1].start = 0 /\ chunkLog[1].end = 168
    /\ chunkLog[2].start = 168 /\ chunkLog[2].end = 169

\* The chunk's body did not run to its end or to a `continue`: it raised
C10_Raised(entry) == entry.outcome \notin {"loaded", "empty", "no_operations"}

\* C10: when the processing of a chunk raises, at whatever stage, the error
\* is caught by one of the chunk's own handlers, nothing leaves
\* process_netcdf_file and every later chunk of the file is still attempted.
C10_ChunkIsolation ==
    /\ ~escaped
    /\ \A k \in 1..Len(chunkLog) :
          C10_Raised(chunkLog[k]) => chunkLog[k].outcome \in {"key_error", "error"}
    /\ (pc \in {"finally", "returned"} /\ total_steps >= 0) =>
          \A k \in 1..Len(chunkLog) :
              C10_Raised(chunkLog[k]) =>
                  \A t \in 0..(total_steps - 1) :
                      (t % 168 = 0 /\ t > chunkLog[k].start) =>
                          \E m \in (k + 1)..Len(chunkLog) : chunkLog[m].start = t

\* The first chunk raised, the second was loaded
C10_Witness ==
    /\ pc = "returned"
    /\ Len(chunkLog) = 2
    /\ chunkLog[1].outcome = "error"
    /\ chunkLog[2].outcome = "loaded" /\ chunkLog[2].nops = 1
    /\ BagCardinality(store) = 1

-----------------------------------------------------------------------------
(* SpecMain: one run of main *)

\* What can happen to get_mongo_client: the URI is empty, the MongoClient
\* constructor raises, the ping raises ConnectionFailure or something else,
\* or the ping answers
ConnectFates ==
    {"no_uri", "constructor_raises", "ping_connection_failure", "ping_error", "ok"}

\* get_mongo_client(uri): whether a MongoClient was created, and whether the
\* function returns it or leaves through sys.exit(1)
get_mongo_client(fate) ==
    CASE fate = "no_uri" -> [created |-> FALSE, exits |-> TRUE]
      [] fate = "constructor_raises" -> [created |-> FALSE, exits |-> TRUE]
      [] fate = "ping_connection_failure" -> [created |-> TRUE, exits |-> TRUE]
      [] fate = "ping_error" -> [created |-> TRUE, exits |-> TRUE]
      [] fate = "ok" -> [created |-> TRUE, exits |-> FALSE]

\* The `except Exception` of main's outer try: SystemExit goes through it
MainCatches(exc) == exc = "Exception"

\* No `except` around the call of process_netcdf_file
FileLoopCatches_Nothing(exc) == FALSE

\* The `except Exception` around the call of process_netcdf_file
FileLoopCatches(exc) == exc = "Exception"

\* sorted(): ascending order
sorted(l) == SortSeq(l, LAMBDA a, b : a < b)

\* What glob.glob can return: the matching paths, each once, in any order
GlobResults ==
    {l \in SeqsUpTo(1..MaxPaths, MaxPaths) :
        \A a, b \in 1..Len(l) : a # b => l[a] # l[b]}

\* The exit status of the process when main is left with `exc` in flight
ExitStatus(exc) == IF exc = "SystemExit" THEN 1 ELSE 0

InitMain ==
    /\ mpc = "start" /\ clients = <<>> /\ client = 0 /\ file_list = <<>>
    /\ index = 0 /\ attempted = <<>> /\ finished = FALSE /\ failure = "none"
    /\ pending = "none" /\ exit_status = -1
    /\ store = EmptyBag /\ uniqueIndex = FALSE
    /\ SigOff /\ LoadOff /\ PipeOff /\ SeedOff

\* client = get_mongo_client(MONGO_URI)
Connect ==
    /\ mpc = "start"
    /\ \E fate \in ConnectFates :
          LET r == get_mongo_client(fate)
          IN  /\ clients' = IF r.created THEN Append(clients, 0) ELSE clients
              /\ IF r.exits
                 THEN /\ pending' = "SystemExit"
                      /\ failure' = "connection"
                      /\ mpc' = "finally"
                      /\ UNCHANGED client
                 ELSE /\ client' = Len(clients')
                      /\ mpc' = "setup"
                      /\ UNCHANGED <<pending, failure>>
    /\ UNCHANGED <<file_list, index, attempted, finished, exit_status,
                   storeVars, sigVars, loadVars, pipeVars, seedVars>>

\* db = client[DB_NAME] ... setup_indexes(collection): the index is created
\* or its creation fails and is logged, or a statement of the setup raises
SetupCollection ==
    /\ mpc = "setup"
    /\ \/ /\ uniqueIndex' \in BOOLEAN
          /\ mpc' = "find"
          /\ UNCHANGED <<pending, failure>>
       \/ /\ pending' = IF MainCatches("Exception") THEN "none" ELSE "Exception"
          /\ failure' = "setup_exception"
          /\ mpc' = "finally"
          /\ UNCHANGED uniqueIndex
    /\ UNCHANGED <<clients, client, file_list, index, attempted, finished,
                   exit_status, store, sigVars, loadVars, pipeVars, seedVars>>

\* file_list = sorted(glob.glob(absolute_pattern)); `if not file_list`
FindFiles ==
    /\ mpc = "find"
    /\ \E g \in GlobResults :
          /\ file_list' = sorted(g)
          /\ IF g = <<>>
             THEN /\ pending' = "SystemExit"
                  /\ failure' = "no_files"
                  /\ mpc' = "finally"
             ELSE /\ mpc' = "loop"
                  /\ UNCHANGED <<pending, failure>>
    /\ UNCHANGED <<clients, client, index, attempted, finished, exit_status,
                   storeVars, sigVars, loadVars, pipeVars, seedVars>>

\* One pass of `for index, filepath in enumerate(file_list)`: the call of
\* process_netcdf_file returns or raises
ProcessFile ==
    /\ mpc = "loop"
    /\ index < Len(file_list)
    /\ \E outcome \in {"returned", "raised"} :
          /\ attempted' = Append(attempted,
                 [path |-> file_list[index + 1], outcome |-> outcome])
          /\ IF outcome = "raised" /\ ~FileLoopCatches("Exception")
             THEN /\ pending' = IF MainCatches("Exception") THEN "none" ELSE "Exception"
                  /\ mpc' = "finally"
                  /\ UNCHANGED index
             ELSE /\ index' = index + 1
                  /\ UNCHANGED <<pending, mpc>>
    /\ UNCHANGED <<clients, client, file_list, finished, failure, exit_status,
                   storeVars, sigVars, loadVars, pipeVars, seedVars>>

\* The loop is exhausted: "ETL pipeline finished processing all found files"
FinishFiles ==
    /\ mpc = "loop"
    /\ index >= Len(file_list)
    /\ finished' = TRUE
    /\ mpc' = "finally"
    /\ UNCHANGED <<clients, client, file_list, index, attempted, failure, pending,
                   exit_status, storeVars, sigVars, loadVars, pipeVars, seedVars>>

\* The finally clause of main, then the end of the process
CloseClient ==
    /\ mpc = "finally"
    /\ clients' = IF client # 0 THEN [clients EXCEPT ![client] = @ + 1] ELSE clients
    /\ exit_status' = ExitStatus(pending)
    /\ mpc' = "exited"
    /\ UNCHANGED <<client, file_list, index, attempted, finished, failure, pending,
                   storeVars, sigVars, loadVars, pipeVars, seedVars>>

NextMain ==
    \/ Connect
    \/ SetupCollection
    \/ FindFiles
    \/ ProcessFile
    \/ FinishFiles
    \/ CloseClient

\* main runs on: no step of it waits for anything
SpecMain == InitMain /\ [][NextMain]_vars /\ WF_vars(NextMain)

\* The paths of the calls of process_netcdf_file so far
C11_AttemptedPaths == [k \in 1..Len(attempted) |-> attempted[k].path]

\* The files are gone through once each, in ascending order of path
C11_InOrder ==
    /\ \A a, b \in 1..Len(file_list) : a < b => file_list[a] < file_list[b]
    /\ Len(attempted) <= Len(file_list)
    /\ C11_AttemptedPaths = SubSeq(file_list, 1, Len(attempted))
    /\ (mpc \in {"finally", "exited"} /\ file_list # <<>>) =>
          /\ finished
          /\ C11_AttemptedPaths = file_list

\* C11: once at least one file is enumerated, main calls process_netcdf_file
\* on every enumerated file exactly once, in sorted path order, whether
\* earlier calls returned or raised; no file is retried, and "finished
\* processing all found files" is always reached.
C11_EveryFileOnce ==
    /\ []C11_InOrder
    /\ (file_list # <<>>) ~> finished

\* Three files found; the first two calls raised, the third returned, and
\* the run finished
C11_Witness ==
    /\ mpc = "exited"
    /\ finished
    /\ Len(file_list) = 3
    /\ attempted = <<[path |-> file_list[1], outcome |-> "raised"],
                     [path |-> file_list[2], outcome |-> "raised"],
                     [path |-> file_list[3], outcome |-> "returned"]>>

\* C12: the process ends with a non-zero status for every unrecoverable
\* setup failure (no connection, no input file, another exception during the
\* setup in main), and with status zero otherwise: calls of
\* process_netcdf_file that raise do not change the status of a run that
\* found files.
C12_ExitStatus ==
    mpc = "exited" => (exit_status # 0 <=> failure # "none")

\* C13: a run creates at most one MongoClient and, once created, the client
\* has had close() called exactly once when the process ends, on every path:
\* normal completion, the exit for want of input files, a failed connection
\* test in get_mongo_client, an unexpected exception in main.
C13_ClientClosedOnce ==
    /\ Len(clients) <= 1
    /\ \A k \in 1..Len(clients) : clients[k] <= 1
    /\ mpc = "exited" => \A k \in 1..Len(clients) : clients[k] = 1

-----------------------------------------------------------------------------
(* The transform and the stored wind fields, on the one-row tables of SpecLoad *)

\* The chunk is one cell whose wind components are both finite
OneCellFiniteWind ==
    /\ phase = "built" /\ Len(cells) = 1
    /\ cells[1].u10.kind = "num" /\ cells[1].v10.kind = "num"

\* C15: for a grid point with u = 0 and v = 0 the transform gives wind speed
\* 0 and wind direction 180, and the document carries windSpeed = 0 and
\* windDirection = 180, not null.
C15_CalmWind ==
    (OneCellFiniteWind /\ cells[1].u10.val = 0 /\ cells[1].v10.val = 0) =>
        /\ Len(table) = 1
        /\ table[1].wind_speed_mps.kind = "num" /\ table[1].wind_speed_mps.val = 0
        /\ table[1].wind_direction_deg.kind = "num"
        /\ table[1].wind_direction_deg.val = 18000
        /\ \A k \in 1..Len(operations) :
              /\ operations[k].set.windSpeed = [null |-> FALSE, val |-> 0]
              /\ operations[k].set.windDirection = [null |-> FALSE, val |-> 180]

-----------------------------------------------------------------------------
(* The engine loop of Spec *)

\* C16: the engines are tried in the order netcdf4, h5netcdf, scipy; the
\* first whose probe open and chunked open both succeed is used and none is
\* tried after it; if all fail the file is skipped with no chunk processed,
\* and the error list holds one entry per engine, in attempt order.
C16_BackendFallback ==
    LET order == <<"netcdf4", "h5netcdf", "scipy">>
    IN  /\ Len(open_errors) <= 3
        /\ open_errors = SubSeq(order, 1, Len(open_errors))
        /\ pc = "open" => ds = 0 /\ engineIdx = Len(open_errors) + 1
        /\ ds # 0 =>
              /\ Len(open_errors) < 3
              /\ engineIdx = Len(open_errors) + 1
              /\ ds = Len(handles)
        /\ (pc = "returned" /\ engineIdx > 0 /\ ds = 0) =>
              /\ open_errors = order
              /\ chunkLog = <<>>

\* The first engine failed at the probe, the second at the chunked open, the
\* third opened the file, whose two chunks were then gone through
C16_Witness ==
    /\ pc = "returned"
    /\ open_errors = <<"netcdf4", "h5netcdf">>
    /\ engineIdx = 3
    /\ handles = <<1, 1, 1>>
    /\ ds = 3
    /\ Len(chunkLog) = 2

-----------------------------------------------------------------------------
(* The stored fields, on the tables of SpecLoad *)

\* C17: for every finite (u, v) other than (0, 0) the windDirection written
\* to the store, the transform's result rounded to an integer, is an integer
\* d with 0 <= d < 360.
C17_StoredDirectionRange ==
    (OneCellFiniteWind /\ ~(cells[1].u10.val = 0 /\ cells[1].v10.val = 0)) =>
        \A k \in 1..Len(operations) :
            /\ ~operations[k].set.windDirection.null
            /\ operations[k].set.windDirection.val \in 0..359

\* C18: the direction is the one the wind comes from, 0 = N, 90 = E,
\* 180 = S, 270 = W: wind blowing toward the north (u = 0, v > 0) gives 180,
\* toward the east (u > 0, v = 0) 270, toward the south (u = 0, v < 0) 0,
\* toward the west (u < 0, v = 0) 90.
C18_AxisAlignedWinds ==
    OneCellFiniteWind =>
        LET u == cells[1].u10.val
            v == cells[1].v10.val
            expected == CASE u = 0 /\ v > 0 -> 18000
                          [] u > 0 /\ v = 0 -> 27000
                          [] u = 0 /\ v < 0 -> 0
                          [] u < 0 /\ v = 0 -> 9000
                          [] OTHER -> -1
        IN  expected # -1 =>
                /\ Len(table) = 1
                /\ table[1].wind_direction_deg.kind = "num"
                /\ table[1].wind_direction_deg.val = expected

\* A wind blowing toward the south, its u a negative zero: direction 0
C18_Witness ==
    /\ OneCellFiniteWind
    /\ cells[1].u10.val = 0 /\ cells[1].u10.negzero
    /\ cells[1].v10.val < 0
    /\ table[1].wind_direction_deg.val = 0
    /\ Len(operations) = 1
    /\ operations[1].set.windDirection = [null |-> FALSE, val |-> 0]

\* C19: every operation prepare_bulk_operations emits is an upsert, its
\* filter is exactly the (timestamp, latitude, longitude) triple, its $set
\* carries the same three values, and the $set always has the nine fields of
\* the schema, the three unit tags among them, an undefined value being an
\* explicit null and not a missing key.
C19_OperationShape ==
    \A k \in 1..Len(operations) :
        LET op == operations[k]
        IN  /\ op.upsert
            /\ DOMAIN op.filter = {"timestamp", "latitude", "longitude"}
            /\ \A f \in DOMAIN op.filter : op.set[f] = op.filter[f]
            /\ DOMAIN op.set =
                  {"timestamp", "latitude", "longitude",
                   "temperature", "temperatureUnit",
                   "windSpeed", "windSpeedUnit",
                   "windDirection", "windDirectionUnit"}
            /\ op.set.temperatureUnit = "C"
            /\ op.set.windSpeedUnit = "m/s"
            /\ op.set.windDirectionUnit = "degrees"
            /\ \A f \in {"temperature", "windSpeed", "windDirection"} :
                  DOMAIN op.set[f] = {"null", "val"}

\* A batch of three operations, one of them with the wind fields null
C19_Witness ==
    /\ phase = "built"
    /\ Len(operations) = 3
    /\ \E k \in 1..3 :
          /\ operations[k].set.windSpeed.null
          /\ operations[k].set.windDirection.null
          /\ ~operations[k].set.temperature.null
    /\ \E k \in 1..3 : ~operations[k].set.windSpeed.null

\* C20: in every document written, windSpeed is null if and only if
\* windDirection is null: both are undefined exactly when u or v is.
C20_WindFieldsTogether ==
    /\ \A d \in BagToSet(store) : d.windSpeed.null <=> d.windDirection.null
    /\ \A k \in 1..Len(operations) :
          operations[k].set.windSpeed.null <=> operations[k].set.windDirection.null
    /\ (phase = "built" /\ Len(cells) = 1) =>
          \A k \in 1..Len(operations) :
              operations[k].set.windSpeed.null
                  <=> (isnan(cells[1].u10) \/ isnan(cells[1].v10))

\* A document written from a cell whose v is undefined and whose u and
\* temperature are not
C20_Witness ==
    /\ Len(cells) = 1
    /\ ~isnan(cells[1].u10) /\ isnan(cells[1].v10) /\ ~isnan(cells[1].t2m)
    /\ Len(results) = 1 /\ results[1].log = "result"
    /\ \E d \in BagToSet(store) :
          d.windSpeed.null /\ d.windDirection.null /\ ~d.temperature.null

-----------------------------------------------------------------------------
(* SpecChunks: the chunk loop of one call of process_netcdf_file *)

\* The file passed the validation and the first engine opened it
InitChunks ==
    /\ pc = "chunks"
    /\ file \in {f \in PipelineFiles : Validation(f).proceed}
    /\ checks = Validation(file).checks
    /\ engineIdx = 1
    /\ handles = OpenAttempt(<<>>, "opened")
    /\ open_errors = <<>>
    /\ ds = 2
    /\ time_dim = TimeDimOf(file.dims)
    /\ total_steps = -1 /\ i = 0 /\ chunkLog = <<>> /\ escaped = FALSE
    /\ processed_records_in_file = 0 /\ logged_records = -1
    /\ store = EmptyBag
    /\ uniqueIndex \in BOOLEAN
    /\ SigOff /\ LoadOff /\ MainOff /\ SeedOff

\* One pass of the chunk loop, the table possibly holding a record the batch
\* builder skips
CountChunk == ChunkPass(ChunkInputs(CountTables(time_dim, start_step(i))))

NextChunks ==
    \/ SetupChunks
    \/ CountChunk
    \/ FinishChunks
    \/ CloseFile

SpecChunks == InitChunks /\ [][NextChunks]_vars

\* The chunk ran to its end or to `continue` with an empty table or an empty
\* batch
C21_NothingToWrite(entry) ==
    /\ entry.outcome \notin {"key_error", "error", "unhandled"}
    /\ (entry.rows = 0 \/ entry.nops = 0)

C21_NoEmptyList ==
    \A k \in 1..Len(chunkLog) :
        /\ \A w \in 1..Len(chunkLog[k].writes) : chunkLog[k].writes[w] > 0
        /\ C21_NothingToWrite(chunkLog[k]) => chunkLog[k].writes = <<>>

C21_PassedOver ==
    (Len(chunkLog') = Len(chunkLog) + 1
        /\ C21_NothingToWrite(chunkLog'[Len(chunkLog')])) =>
            /\ store' = store
            /\ pc' = "loop"
            /\ i' = i + 168

\* C21: collection.bulk_write is never called with an empty list of
\* operations; a chunk whose table is empty after the drop, or for which the
\* batch builder emits no operation, makes no call on the store and the loop
\* goes on to the next chunk.
C21_NoEmptyWrite == []C21_NoEmptyList /\ [][C21_PassedOver]_vars

\* A chunk whose only record has no latitude, then a chunk that is written
C21_Witness ==
    /\ pc = "returned"
    /\ Len(chunkLog) = 2
    /\ chunkLog[1].outcome = "no_operations"
    /\ chunkLog[1].rows = 1 /\ chunkLog[1].nops = 0 /\ chunkLog[1].writes = <<>>
    /\ chunkLog[2].outcome = "loaded" /\ chunkLog[2].writes = <<1>>
    /\ BagCardinality(store) = 1

-----------------------------------------------------------------------------
\* The sum of a sequence of numbers
RECURSIVE C22_Total(_)
C22_Total(sizes) ==
    IF sizes = <<>> THEN 0 ELSE Head(sizes) + C22_Total(Tail(sizes))

\* The records retained by the tables the chunks of a log reached
C22_Retained(log) == C22_Total([k \in 1..Len(log) |-> log[k].rows])

\* The operations handed to collection.bulk_write by the chunks of a log
C22_Submitted(log) ==
    C22_Total([k \in 1..Len(log) |-> C22_Total(log[k].writes)])

\* C22: the count logged when a file finishes is the sum, over the chunks
\* that reached a non-empty table, of the records the table retained; it is
\* at least the number of upsert operations handed to the store for the file
\* (records the batch builder drops and chunks whose write fails are counted).
C22_RecordCount ==
    logged_records # -1 =>
        /\ logged_records = C22_Retained(chunkLog)
        /\ logged_records >= C22_Submitted(chunkLog)

\* A chunk of two records, one without latitude, whose write fails as a
\* whole, then a chunk on whose one-record table the batch builder raised
C22_Witness ==
    /\ pc = "returned"
    /\ logged_records = 3
    /\ Len(chunkLog) = 2
    /\ chunkLog[1].outcome = "loaded"
    /\ chunkLog[1].rows = 2 /\ chunkLog[1].writes = <<1>>
    /\ chunkLog[2].outcome = "error" /\ chunkLog[2].rows = 1
    /\ store = EmptyBag

-----------------------------------------------------------------------------
(* SpecSeed: the download loop of mongodb-seed.py *)

\* months = ["01", ..., "12"]
NumMonths == 12

\* while attempts < 3
MAX_ATTEMPTS == 3

\* _is_probably_netcdf of mongodb-seed.py, on a file [readable, content]
seed_is_probably_netcdf(path) ==
    IF ~path.readable THEN FALSE
    ELSE LET head == Read8(path.content)
         IN  IF StartsWith(head, <<67, 68, 70>>) THEN TRUE
             ELSE IF head = <<137, 72, 68, 70, 13, 10, 26, 10>> THEN TRUE
             ELSE FALSE

\* What the service can send: an HDF5 (NetCDF-4) file, a classic NetCDF
\* file, a zip archive, an HTML page
ResponseSamples ==
    {<<137, 72, 68, 70, 13, 10, 26, 10, 0>>,
     <<67, 68, 70, 2, 0, 0, 0, 0, 0>>,
     <<80, 75, 3, 4, 20, 0, 0, 0, 8>>,
     <<60, 33, 68, 79, 67, 84, 89, 80, 69>>}

\* What can happen to one client.retrieve(..., output_filename): the response
\* is written to the target; or the call raises, before the target is
\* touched or after it was created empty
RetrieveFates ==
    {[raises |-> FALSE, writes |-> TRUE, content |-> c] : c \in ResponseSamples}
    \cup {[raises |-> TRUE, writes |-> FALSE, content |-> <<>>],
          [raises |-> TRUE, writes |-> TRUE, content |-> <<>>]}

\* The file at the target after client.retrieve
retrieve(target, fate) ==
    IF fate.writes THEN [readable |-> TRUE, content |-> fate.content] ELSE target

\* os.replace(output_filename, bad_name) inside try / except Exception: pass
replace(src, dst, fails) ==
    IF fails \/ ~src.readable
    THEN [src |-> src, dst |-> dst]
    ELSE [src |-> AbsentFile, dst |-> src]

\* A sleep after every failed attempt
SleepsAfter_Always(n) == TRUE

\* `if attempts < 3: time.sleep(5 * attempts)`
SleepsAfter(n) == n < MAX_ATTEMPTS

\* The files a month can find at its output path: none, or one an earlier
\* run left there
StartingFiles ==
    {AbsentFile} \cup {[readable |-> TRUE, content |-> c] : c \in ResponseSamples}

InitSeed ==
    /\ seed_pc = "for"
    /\ month = 0
    /\ months_attempted = <<>>
    /\ attempts = 0
    /\ before = AbsentFile
    /\ output_file = AbsentFile
    /\ invalid_file = AbsentFile
    /\ attempt_log = <<>>
    /\ store = EmptyBag /\ uniqueIndex = TRUE
    /\ SigOff /\ LoadOff /\ PipeOff /\ MainOff

\* `for month in months`: the next month's output_filename, attempts = 0
StartMonth ==
    /\ seed_pc = "for"
    /\ month < NumMonths
    /\ month' = month + 1
    /\ months_attempted' = Append(months_attempted, month + 1)
    /\ attempts' = 0
    /\ \E f \in StartingFiles : before' = f /\ output_file' = f
    /\ invalid_file' = AbsentFile
    /\ attempt_log' = <<>>
    /\ seed_pc' = "while"
    /\ UNCHANGED <<storeVars, sigVars, loadVars, pipeVars, mainVars>>

\* One pass of `while attempts < 3`
Attempt ==
    /\ seed_pc = "while"
    /\ attempts < MAX_ATTEMPTS
    /\ attempts' = attempts + 1
    /\ \E fate \in RetrieveFates :
          LET n == attempts + 1
              got == retrieve(output_file, fate)
              slept == IF SleepsAfter(n) THEN 5 * n ELSE 0
          IN  IF fate.raises
              THEN /\ output_file' = got
                   /\ attempt_log' = Append(attempt_log,
                          [outcome |-> "error", slept |-> slept, renamed |-> FALSE])
                   /\ seed_pc' = "while"
                   /\ UNCHANGED invalid_file
              ELSE IF seed_is_probably_netcdf(got)
              THEN /\ output_file' = got
                   /\ attempt_log' = Append(attempt_log,
                          [outcome |-> "valid", slept |-> 0, renamed |-> FALSE])
                   /\ seed_pc' = "month_end"
                   /\ UNCHANGED invalid_file
              ELSE IF SleepsAfter(n)
              THEN /\ output_file' = got
                   /\ attempt_log' = Append(attempt_log,
                          [outcome |-> "unrecognized", slept |-> slept,
                           renamed |-> FALSE])
                   /\ seed_pc' = "while"
                   /\ UNCHANGED invalid_file
              ELSE \E fails \in BOOLEAN :
                   LET r == replace(got, invalid_file, fails)
                   IN  /\ output_file' = r.src
                       /\ invalid_file' = r.dst
                       /\ attempt_log' = Append(attempt_log,
                              [outcome |-> "unrecognized", slept |-> 0,
                               renamed |-> ~fails])
                       /\ seed_pc' = "while"
    /\ UNCHANGED <<month, months_attempted, before,
                   storeVars, sigVars, loadVars, pipeVars, mainVars>>

\* The while loop ends because attempts reached 3
GiveUp ==
    /\ seed_pc = "while"
    /\ attempts >= MAX_ATTEMPTS
    /\ seed_pc' = "month_end"
    /\ UNCHANGED <<month, months_attempted, attempts, before, output_file,
                   invalid_file, attempt_log,
                   storeVars, sigVars, loadVars, pipeVars, mainVars>>

\* The body of the `for` loop is over
EndMonth ==
    /\ seed_pc = "month_end"
    /\ seed_pc' = "for"
    /\ UNCHANGED <<month, months_attempted, attempts, before, output_file,
                   invalid_file, attempt_log,
                   storeVars, sigVars, loadVars, pipeVars, mainVars>>

\* "All downloads complete"
FinishSeed ==
    /\ seed_pc = "for"
    /\ month >= NumMonths
    /\ seed_pc' = "done"
    /\ UNCHANGED <<month, months_attempted, attempts, before, output_file,
                   invalid_file, attempt_log,
                   storeVars, sigVars, loadVars, pipeVars, mainVars>>

NextSeed ==
    \/ StartMonth
    \/ Attempt
    \/ GiveUp
    \/ EndMonth
    \/ FinishSeed

SpecSeed == InitSeed /\ [][NextSeed]_vars /\ WF_vars(NextSeed)

\* The attempts of a month whose loop is over
C23_MonthBounded ==
    seed_pc = "month_end" =>
        LET n == Len(attempt_log)
        IN  /\ n >= 1 /\ n <= 3
            /\ n = attempts
            /\ \A k \in 1..n :
                  /\ attempt_log[k].outcome = "valid" => k = n
                  /\ attempt_log[k].slept > 0 => k < n
            /\ n < 3 => attempt_log[n].outcome = "valid"

\* The months entered so far are 1, 2, ... in this order
C23_Ascending ==
    /\ months_attempted = [k \in 1..month |-> k]
    /\ seed_pc = "done" => month = 12

\* C23: for each of the 12 months the loop makes at least 1 and at most 3
\* retrieval attempts, stops at the first attempt whose file passes the
\* signature check, sleeps after an attempt only when another attempt
\* follows, and goes on to the next month whether the month succeeded or was
\* given up; the script terminates, having attempted the 12 months in
\* ascending order.
C23_RetryBound ==
    /\ []C23_MonthBounded
    /\ []C23_Ascending
    /\ <>(seed_pc = "done")

\* The last month took an error, an unrecognized file and a valid file
C23_Witness ==
    /\ seed_pc = "done"
    /\ months_attempted = <<1, 2, 3, 4, 5, 6, 7, 8, 9, 10, 11, 12>>
    /\ Len(attempt_log) = 3
    /\ attempt_log[1].outcome = "error" /\ attempt_log[1].slept = 5
    /\ attempt_log[2].outcome = "unrecognized" /\ attempt_log[2].slept = 10
    /\ attempt_log[3].outcome = "valid" /\ attempt_log[3].slept = 0

\* C24: when the download loop of a month that began with no file at its
\* output path ends, the output path does not exist or holds a file that
\* passes the signature check; an unrecognized response is kept only under
\* the '.invalid' name.
C24_NoInvalidOutput ==
    (seed_pc = "month_end" /\ before = AbsentFile) =>
        \/ output_file = AbsentFile
        \/ seed_is_probably_netcdf(output_file)

=============================================================================
